---- MODULE Spec2Model ----
(***************************************************************************)
(* Model of semgrep_agent: the Finding identity model and FindingSets      *)
(* (findings.py) and the git head reconciliation / lockfile orchestration  *)
(* (semgrepdep.py).                                                        *)
(*                                                                         *)
(* Two specifications share the module:                                    *)
(*   SpecFindings  raw match records are normalised by                     *)
(*                 from_semgrep_result and grouped into the two maps of a  *)
(*                 FindingSets;                                            *)
(*   Spec          one run of invoke_semgrep around fix_head_for_github.   *)
(***************************************************************************)
EXTENDS Integers, Sequences, FiniteSets, TLC

VARIABLES
    \* ---- findings.py ----
    committed_datetime,  \* the commit timestamp handed to from_semgrep_result
    baseline_map,        \* FindingSets.baseline_map, a dict in insertion order
    current_map,         \* FindingSets.current_map, a dict in insertion order
    raw_result,          \* the raw match record being normalised
    normalized,          \* the Finding from_semgrep_result made of it
    reported,            \* what Finding.to_dict gave for it
    record_pc,           \* how far the record got: raw, normalized, reported
    \* ---- semgrepdep.py ----
    has_repo,            \* get_git_repo() is not None
    position,            \* what is checked out: a branch name or a commit hash
    start_position,      \* position when invoke_semgrep was called
    base_commit_ref,     \* argument of fix_head_for_github
    head_ref,            \* argument of fix_head_for_github
    stashed_rev,         \* local of fix_head_for_github
    base_ref,            \* local of fix_head_for_github
    yielded,             \* the value fix_head_for_github yielded to its body
    pc,                  \* where the run of invoke_semgrep stands
    error,               \* the exception in flight / propagated to the caller
    worktree,            \* the commit whose files are on disk
    git_log,             \* the git commands run so far, in order
    scope_log,           \* scope enter/exit events of invoke_semgrep, in order
    new_targets_text,    \* local of invoke_semgrep: lockfile -> text, current
    old_targets_text,    \* local of invoke_semgrep: lockfile -> text, baseline
    lookups,             \* the calls of compare_lockfiles so far, in order
    res,                 \* local of invoke_semgrep: the comments collected
    output,              \* what was written to the GITHUB_ENV file
    pre_baseline         \* position and tree when the baseline scope was opened

findingVars == <<committed_datetime, baseline_map, current_map>>
gitVars == <<has_repo, position, start_position, base_commit_ref, head_ref,
             stashed_rev, base_ref, yielded, pc, error, worktree, git_log,
             scope_log, new_targets_text, old_targets_text, lookups, res,
             output, pre_baseline>>
lockVars == <<new_targets_text, old_targets_text, lookups, res, output,
              pre_baseline>>
recordVars == <<raw_result, normalized, reported, record_pc>>
vars == <<findingVars, recordVars, gitVars>>

None == "None"

\* ------------------------------------------------------------------ bounds
\* Total number of raw match records reported over both snapshots.
MaxResults == 4

\* ------------------------------------------------------- textwrap.dedent
\* A text is a sequence of lines, a line a sequence of characters.
IsWhite(c) == c \in {" ", "\t"}

RECURSIVE LeadingWhitespace(_)
LeadingWhitespace(line) ==
    IF line = <<>> \/ ~IsWhite(Head(line)) THEN <<>>
    ELSE <<Head(line)>> \o LeadingWhitespace(Tail(line))

WhitespaceOnly(line) == \A i \in 1..Len(line) : IsWhite(line[i])

StartsWith(s, prefix) ==
    /\ Len(prefix) <= Len(s)
    /\ SubSeq(s, 1, Len(prefix)) = prefix

RECURSIVE CommonPrefix(_, _)
CommonPrefix(x, y) ==
    IF x = <<>> \/ y = <<>> \/ Head(x) # Head(y) THEN <<>>
    ELSE <<Head(x)>> \o CommonPrefix(Tail(x), Tail(y))

\* The margin loop of textwrap.dedent over the indents of the non-blank lines.
\* margin = None, written as a sequence no indent can be.
NoMargin == <<"None">>

RECURSIVE Margin(_, _)
Margin(indents, margin) ==
    IF indents = <<>> THEN margin
    ELSE LET ind == Head(indents)
             m == IF margin = NoMargin THEN ind
                  ELSE IF StartsWith(ind, margin) THEN margin
                  ELSE IF StartsWith(margin, ind) THEN ind
                  ELSE CommonPrefix(margin, ind)
         IN Margin(Tail(indents), m)

dedent(text) ==
    LET blanked == [i \in 1..Len(text) |->
                      IF WhitespaceOnly(text[i]) THEN <<>> ELSE text[i]]
        nonblank == SelectSeq(blanked, LAMBDA l : l # <<>>)
        indents == [i \in 1..Len(nonblank) |-> LeadingWhitespace(nonblank[i])]
        margin == Margin(indents, NoMargin)
    IN IF margin = NoMargin \/ margin = <<>> THEN blanked
       ELSE [i \in 1..Len(blanked) |->
               IF StartsWith(blanked[i], margin)
               THEN SubSeq(blanked[i], Len(margin) + 1, Len(blanked[i]))
               ELSE blanked[i]]

\* textwrap.indent: the prefix goes before every line that is not blank.
indent(text, prefix) ==
    [i \in 1..Len(text) |->
        IF WhitespaceOnly(text[i]) THEN text[i] ELSE prefix \o text[i]]

\* ----------------------------------------------------------- raw records
CheckIds == {"r1", "r2"}
Paths == {"p1", "p2"}
TextA == << <<"a">> >>
TextIndentedA == << <<" ", "a">> >>
TextIndentedAB == << <<" ", "a">>, <<" ", " ", "b">> >>
Texts == {TextA, TextIndentedA, TextIndentedAB}
Prefixes == {<<" ">>, <<" ", " ">>, <<"\t">>}

\* The informational part of a raw record.
Infos ==
    { [start |-> [line |-> 1, col |-> 1], end |-> [line |-> 1, col |-> 4],
       message |-> "m1", severity |-> "ERROR",
       metadata |-> [has_actions |-> FALSE, actions |-> {}]],
      [start |-> [line |-> 7, col |-> 3], end |-> [line |-> 8, col |-> 5],
       message |-> "m2", severity |-> "error",
       metadata |-> [has_actions |-> TRUE, actions |-> {"comment"}]] }

FirstInfo == CHOOSE i \in Infos : i.message = "m1"

RawResult(c, p, t, i) ==
    [check_id |-> c, path |-> p, start |-> i.start, end |-> i.end,
     extra |-> [lines |-> t, message |-> i.message, severity |-> i.severity,
                metadata |-> i.metadata]]

SecondInfo == CHOOSE i \in Infos : i.message = "m2"

\* The records the engine may report in a run: one rule and path with the
\* same snippet at two indentations and with two informational variants, a
\* two-line snippet, and one record of another rule and of another path.
ReportedResults ==
    { RawResult("r1", "p1", TextA, FirstInfo),
      RawResult("r1", "p1", TextA, SecondInfo),
      RawResult("r1", "p1", TextIndentedA, FirstInfo),
      RawResult("r1", "p1", TextIndentedAB, SecondInfo),
      RawResult("r2", "p1", TextA, FirstInfo),
      RawResult("r1", "p2", TextA, FirstInfo) }

\* ------------------------------------------------------------ findings.py
FindingKey(check_id, path, syntactic_context) ==
    [check_id |-> check_id, path |-> path,
     syntactic_context |-> syntactic_context]

\* attr.s construction of a Finding: syntactic_context goes through its
\* converter, textwrap.dedent.
Finding(check_id, path, line, column, message, severity, index, syntactic_context, end_line, end_column, commit_date, metadata) ==
    [check_id |-> check_id, path |-> path, line |-> line, column |-> column,
     message |-> message, severity |-> severity, index |-> index,
     syntactic_context |-> dedent(syntactic_context),
     end_line |-> end_line, end_column |-> end_column,
     commit_date |-> commit_date, metadata |-> metadata]

\* attr.evolve(finding, index=index): a new Finding built from the fields of
\* the old one (the converter runs again).
evolve_index(f, index) ==
    Finding(f.check_id, f.path, f.line, f.column, f.message, f.severity, index,
            f.syntactic_context, f.end_line, f.end_column, f.commit_date,
            f.metadata)

\* semgrep_severity_to_int comparing without regard to case
semgrep_severity_to_int_IgnoreCase(severity) ==
    IF severity \in {"ERROR", "error"} THEN 2
    ELSE IF severity \in {"WARNING", "warning"} THEN 1
    ELSE 0

semgrep_severity_to_int(severity) ==
    IF severity = "ERROR" THEN 2
    ELSE IF severity = "WARNING" THEN 1
    ELSE 0

from_semgrep_result(result, committed) ==
    LET check_id == result.check_id
        path == result.path
        syntactic_context == result.extra.lines
        key == FindingKey(check_id, path, syntactic_context)
        finding == Finding(check_id, path,
                           result.start.line, result.start.col,
                           result.extra.message,
                           semgrep_severity_to_int(result.extra.severity),
                           0, syntactic_context,
                           result.end.col, result.end.col,
                           committed, result.extra.metadata)
    IN <<key, finding>>

\* str((check_id, path, index, syntactic_context)) hashed by pymmh3.hash128:
\* a 128-bit digest, taken as collision-free and so written as its preimage.
hash128(str_id) == <<"mmh3", str_id>>

syntactic_identifier_int(f) ==
    hash128(<<f.check_id, f.path, f.index, f.syntactic_context>>)

\* the 16 bytes of the digest, big-endian, as hex
syntactic_identifier_str(f) == <<"hex", syntactic_identifier_int(f)>>

\* Finding.__hash__
FindingHash(f) == syntactic_identifier_int(f)

\* FindingEq of a class declared eq=False: object identity. The members of
\* the expanded sets are fresh objects of attr.evolve, never the same object.
FindingEq_Identity(a, b) == FALSE

\* Finding.__eq__ as attr.s generates it: the tuple of the attributes that
\* are not declared eq=False.
FindingEq(a, b) ==
    <<a.check_id, a.path, a.syntactic_context>>
        = <<b.check_id, b.path, b.syntactic_context>>

\* ----------------------------------------------------- Python set of Finding
\* x in s: an element with the same hash that compares equal.
PyContains(s, x) == \E y \in s : FindingHash(y) = FindingHash(x) /\ FindingEq(y, x)

\* set(iterable): elements are added in order, the first of equals is kept.
RECURSIVE PySet(_, _)
PySet(elements, acc) ==
    IF elements = <<>> THEN acc
    ELSE PySet(Tail(elements),
               IF PyContains(acc, Head(elements)) THEN acc
               ELSE acc \cup {Head(elements)})

\* a - b
PySetDifference(a, b) == {x \in a : ~PyContains(b, x)}

\* ------------------------------------------------------------- FindingSets
\* A dict is a sequence of entries [key, findings] in insertion order.
DictKeys(mapping) == {mapping[i].key : i \in 1..Len(mapping)}

DictGet(mapping, key) ==
    IF key \in DictKeys(mapping)
    THEN (CHOOSE i \in 1..Len(mapping) : mapping[i].key = key)
    ELSE 0

FindingsOf(mapping, key) ==
    IF DictGet(mapping, key) = 0 THEN <<>>
    ELSE mapping[DictGet(mapping, key)].findings

\* the generator of _map_to_set: every list member with its position
RECURSIVE Expanded(_)
Expanded(mapping) ==
    IF mapping = <<>> THEN <<>>
    ELSE LET findings_for_key == Head(mapping).findings
         IN [index \in 1..Len(findings_for_key) |->
                evolve_index(findings_for_key[index], index - 1)]
            \o Expanded(Tail(mapping))

map_to_set(mapping) == PySet(Expanded(mapping), {})

current_set == map_to_set(current_map)

baseline_set == map_to_set(baseline_map)

expensive_new == PySetDifference(current_set, baseline_set)

\* Grouping of the reported records: map.setdefault(key, []).append(finding)
\* for the pair from_semgrep_result returns.
Grouped(mapping, result) ==
    LET kf == from_semgrep_result(result, committed_datetime)
        i == DictGet(mapping, kf[1])
    IN IF i = 0
       THEN Append(mapping, [key |-> kf[1], findings |-> <<kf[2]>>])
       ELSE [mapping EXCEPT ![i].findings = Append(@, kf[2])]

RECURSIVE Occurrences(_)
Occurrences(mapping) ==
    IF mapping = <<>> THEN 0
    ELSE Len(Head(mapping).findings) + Occurrences(Tail(mapping))

TotalResults == Occurrences(baseline_map) + Occurrences(current_map)

CommitDates == {None, "2020-05-01T10:00:00"}

\* No run of invoke_semgrep is in progress.
GitIdle ==
    /\ has_repo = FALSE
    /\ position = None
    /\ start_position = None
    /\ base_commit_ref = None
    /\ head_ref = None
    /\ stashed_rev = None
    /\ base_ref = None
    /\ yielded = None
    /\ pc = "idle"
    /\ error = None
    /\ worktree = None
    /\ git_log = <<>>
    /\ scope_log = <<>>
    /\ new_targets_text = <<>>
    /\ old_targets_text = <<>>
    /\ lookups = <<>>
    /\ res = <<>>
    /\ output = <<>>
    /\ pre_baseline = [entered |-> FALSE, position |-> None, worktree |-> None]

\* No record is being normalised on its own.
RecordIdle ==
    /\ raw_result = None
    /\ normalized = None
    /\ reported = None
    /\ record_pc = "idle"

InitFindings ==
    /\ committed_datetime \in CommitDates
    /\ baseline_map = <<>>
    /\ current_map = <<>>
    /\ RecordIdle
    /\ GitIdle

ReportBaseline ==
    /\ TotalResults < MaxResults
    /\ \E result \in ReportedResults :
          baseline_map' = Grouped(baseline_map, result)
    /\ UNCHANGED <<committed_datetime, current_map, gitVars, recordVars>>

ReportCurrent ==
    /\ TotalResults < MaxResults
    /\ \E result \in ReportedResults :
          current_map' = Grouped(current_map, result)
    /\ UNCHANGED <<committed_datetime, baseline_map, gitVars, recordVars>>

NextFindings == ReportBaseline \/ ReportCurrent

SpecFindings == InitFindings /\ [][NextFindings]_vars

\* ------------------------------------------- one record, raw to reported
\* The severity strings and rule metadata a raw record may carry.
Severities == {"ERROR", "WARNING", "error", "", "INFO"}

\* metadata: whether it has the key dev.semgrep.actions, and the list under it
Metadatas ==
    { [has_actions |-> FALSE, actions |-> {}],
      [has_actions |-> TRUE, actions |-> {}],
      [has_actions |-> TRUE, actions |-> {"block"}],
      [has_actions |-> TRUE, actions |-> {"comment"}],
      [has_actions |-> TRUE, actions |-> {"block", "comment"}] }

RecordInputs ==
    { RawResult(c, p, t, [FirstInfo EXCEPT !.severity = sev, !.metadata = md]) :
        c \in CheckIds, p \in Paths, t \in Texts,
        sev \in Severities, md \in Metadatas }

\* is_blocking with the default of metadata.get left empty
is_blocking_DefaultEmpty(f) ==
    "block" \in (IF f.metadata.has_actions THEN f.metadata.actions ELSE {})

\* Finding.is_blocking: "block" in metadata.get("dev.semgrep.actions", ["block"])
is_blocking(f) ==
    "block" \in (IF f.metadata.has_actions THEN f.metadata.actions ELSE {"block"})

\* datetime.isoformat()
isoformat(dt) == [iso8601 |-> dt]

AttributeNames ==
    {"check_id", "path", "line", "column", "message", "severity", "index",
     "syntactic_context", "end_line", "end_column", "commit_date", "metadata"}

\* The attributes whose value is None. Of the Optional attributes,
\* from_semgrep_result always sets end_line and end_column to numbers.
NoneAttributes(f) == {k \in {"commit_date"} : f[k] = None}

\* Finding.to_dict: the dict it returns, or the exception it raises
to_dict(f) ==
    LET kept == AttributeNames \ NoneAttributes(f)
        keys == kept \cup {"syntactic_id"}
    IN IF "commit_date" \notin keys
       THEN [raised |-> "KeyError", dict |-> <<>>]
       ELSE [raised |-> None,
             dict |-> [k \in keys |->
                        IF k = "syntactic_id" THEN syntactic_identifier_str(f)
                        ELSE IF k = "commit_date" THEN isoformat(f.commit_date)
                        ELSE f[k]]]

InitRecord ==
    /\ committed_datetime \in CommitDates
    /\ baseline_map = <<>>
    /\ current_map = <<>>
    /\ raw_result \in RecordInputs
    /\ normalized = None
    /\ reported = None
    /\ record_pc = "raw"
    /\ GitIdle

\* main.py line 50 and from_semgrep_result: the record becomes a Finding
Normalize ==
    /\ record_pc = "raw"
    /\ normalized' = from_semgrep_result(raw_result, committed_datetime)[2]
    /\ record_pc' = "normalized"
    /\ UNCHANGED <<findingVars, raw_result, reported, gitVars>>

\* the Finding is turned into the reported record
Report ==
    /\ record_pc = "normalized"
    /\ reported' = to_dict(normalized)
    /\ record_pc' = "reported"
    /\ UNCHANGED <<findingVars, raw_result, normalized, gitVars>>

NextRecord == Normalize \/ Report

SpecRecord == InitRecord /\ [][NextRecord]_vars

\* ------------------------------------------------------------------- git
\* The repository the run works on: three commits in a line, two branches.
Commits == {"c1", "c2", "c3"}
BranchNames == {"main", "feature"}
BranchTip(b) == IF b = "main" THEN "c2" ELSE "c3"
HasParent(c) == c \in {"c2", "c3"}
Parent(c) == IF c = "c3" THEN "c2" ELSE "c1"

Fatal == "fatal"

\* the commit HEAD denotes when `pos` is checked out
HeadCommit(pos) == IF pos \in BranchNames THEN BranchTip(pos) ELSE pos

\* git rev-parse <ref> with `pos` checked out: the commit hash, or a failure
rev_parse(ref, pos) ==
    IF ref = "HEAD" THEN HeadCommit(pos)
    ELSE IF ref = "HEAD^"
         THEN (IF HasParent(HeadCommit(pos)) THEN Parent(HeadCommit(pos)) ELSE Fatal)
    ELSE IF ref \in BranchNames THEN BranchTip(ref)
    ELSE IF ref \in Commits THEN ref
    ELSE Fatal

\* git branch --show-current: empty on a detached HEAD
show_current(pos) == IF pos \in BranchNames THEN pos ELSE ""

\* the position git checkout <ref> leads to: the branch, or the commit detached
checkout_target(ref, pos) == IF ref \in BranchNames THEN ref ELSE rev_parse(ref, pos)

GitCommand(cmd, arg, ok) == [cmd |-> cmd, arg |-> arg, ok |-> ok]

\* if x: of an Optional[str]
Truthy(x) == x # None /\ x # ""

\* ---------------------------------------------------- the run's arguments
StartPositions == {"main", "feature", "c2", "c1"}
BaseRefs == {None, "HEAD^", "main", "c1", "nosuch"}
HeadRefs == {None, "main", "feature", "c3", "nosuch"}

Init ==
    /\ committed_datetime = None
    /\ baseline_map = <<>>
    /\ current_map = <<>>
    /\ RecordIdle
    /\ has_repo \in BOOLEAN
    /\ position \in (IF has_repo THEN StartPositions ELSE {None})
    /\ start_position = position
    /\ worktree = (IF has_repo THEN HeadCommit(position) ELSE None)
    /\ base_commit_ref \in BaseRefs
    /\ head_ref \in HeadRefs
    /\ stashed_rev = None
    /\ base_ref = None
    /\ yielded = None
    /\ pc = "call"
    /\ error = None
    /\ git_log = <<>>
    /\ scope_log = <<>>
    /\ new_targets_text = <<>>
    /\ old_targets_text = <<>>
    /\ lookups = <<>>
    /\ res = <<>>
    /\ output = <<>>
    /\ pre_baseline = [entered |-> FALSE, position |-> None, worktree |-> None]

\* ------------------------------------------------------ fix_head_for_github
\* EnterFixHead without the test of get_git_repo(): the git steps run even
\* when there is no repository.
EnterFixHead_NoRepoTest ==
    /\ pc = "call"
    /\ stashed_rev' = None
    /\ base_ref' = base_commit_ref
    /\ pc' = "resolve_base"
    /\ UNCHANGED <<findingVars, recordVars, lockVars, has_repo, position, start_position,
                   base_commit_ref, head_ref, yielded, error, worktree,
                   git_log, scope_log>>

\* lines 47-52: the locals, and the passthrough when there is no repository
EnterFixHead ==
    /\ pc = "call"
    /\ stashed_rev' = None
    /\ base_ref' = base_commit_ref
    /\ IF ~has_repo
       THEN /\ yielded' = base_commit_ref
            /\ scope_log' = Append(scope_log, "reconcile_enter")
            /\ pc' = "with_current"
       ELSE /\ pc' = "resolve_base"
            /\ UNCHANGED <<yielded, scope_log>>
    /\ UNCHANGED <<findingVars, recordVars, lockVars, has_repo, position, start_position,
                   base_commit_ref, head_ref, error, worktree, git_log>>

\* ResolveBase as if it ran after lines 58-63: the baseline ref is resolved
\* with the head ref already checked out.
ResolveBase_AfterHeadCheckout ==
    /\ pc = "resolve_base"
    /\ IF Truthy(base_ref)
       THEN LET moved == IF Truthy(head_ref)
                              /\ checkout_target(head_ref, position) # Fatal
                         THEN checkout_target(head_ref, position)
                         ELSE position
                hash == rev_parse(base_ref, moved)
            IN /\ git_log' = Append(git_log,
                                    GitCommand("rev-parse", base_ref, hash # Fatal))
               /\ IF hash = Fatal
                  THEN /\ error' = "GitError"
                       /\ pc' = "raised"
                       /\ UNCHANGED base_ref
                  ELSE /\ base_ref' = hash
                       /\ pc' = "stash"
                       /\ UNCHANGED error
       ELSE /\ pc' = "stash"
            /\ UNCHANGED <<base_ref, error, git_log>>
    /\ UNCHANGED <<findingVars, recordVars, lockVars, has_repo, position, start_position,
                   base_commit_ref, head_ref, stashed_rev, yielded, worktree,
                   scope_log>>

\* lines 54-56: the baseline ref becomes a commit hash
ResolveBase ==
    /\ pc = "resolve_base"
    /\ IF Truthy(base_ref)
       THEN LET hash == rev_parse(base_ref, position)
            IN /\ git_log' = Append(git_log,
                                    GitCommand("rev-parse", base_ref, hash # Fatal))
               /\ IF hash = Fatal
                  THEN /\ error' = "GitError"
                       /\ pc' = "raised"
                       /\ UNCHANGED base_ref
                  ELSE /\ base_ref' = hash
                       /\ pc' = "stash"
                       /\ UNCHANGED error
       ELSE /\ pc' = "stash"
            /\ UNCHANGED <<base_ref, error, git_log>>
    /\ UNCHANGED <<findingVars, recordVars, lockVars, has_repo, position, start_position,
                   base_commit_ref, head_ref, stashed_rev, yielded, worktree,
                   scope_log>>

\* lines 58-63: the position is recorded and the head ref checked out
StashAndCheckout ==
    /\ pc = "stash"
    /\ IF Truthy(head_ref)
       THEN LET current == show_current(position)
                stash == IF current # "" THEN current ELSE rev_parse("HEAD", position)
                queries == IF current # ""
                           THEN <<GitCommand("branch", "--show-current", TRUE)>>
                           ELSE <<GitCommand("branch", "--show-current", TRUE),
                                  GitCommand("rev-parse", "HEAD", TRUE)>>
                target == checkout_target(head_ref, position)
            IN /\ stashed_rev' = stash
               /\ \E done \in BOOLEAN :
                    LET ok == done /\ target # Fatal
                    IN /\ git_log' = git_log \o queries
                                       \o <<GitCommand("checkout", head_ref, ok)>>
                       /\ IF ok
                          THEN /\ position' = target
                               /\ worktree' = HeadCommit(target)
                               /\ pc' = "log"
                               /\ UNCHANGED error
                          ELSE /\ error' = "GitError"
                               /\ pc' = "raised"
                               /\ UNCHANGED <<position, worktree>>
       ELSE /\ pc' = "log"
            /\ UNCHANGED <<stashed_rev, position, worktree, error, git_log>>
    /\ UNCHANGED <<findingVars, recordVars, lockVars, has_repo, start_position, base_commit_ref,
                   head_ref, base_ref, yielded, scope_log>>

\* lines 65-73: inside the try, the commit range is logged
LogRange ==
    /\ pc = "log"
    /\ IF base_ref # None
       THEN \E ok \in BOOLEAN :
              /\ git_log' = Append(git_log, GitCommand("log", base_ref, ok))
              /\ IF ok
                 THEN pc' = "yield" /\ UNCHANGED error
                 ELSE pc' = "finally" /\ error' = "GitError"
       ELSE /\ pc' = "yield"
            /\ UNCHANGED <<error, git_log>>
    /\ UNCHANGED <<findingVars, recordVars, lockVars, has_repo, position, start_position,
                   base_commit_ref, head_ref, stashed_rev, base_ref, yielded,
                   worktree, scope_log>>

\* line 75: the body of the with statement gets base_ref
YieldBaseRef ==
    /\ pc = "yield"
    /\ yielded' = base_ref
    /\ scope_log' = Append(scope_log, "reconcile_enter")
    /\ pc' = "with_current"
    /\ UNCHANGED <<findingVars, recordVars, lockVars, has_repo, position, start_position,
                   base_commit_ref, head_ref, stashed_rev, base_ref, error,
                   worktree, git_log>>

\* Finally as plain code after the yield instead of a finally clause: the
\* recorded position is checked out only when nothing was raised.
Finally_OnlyOnSuccess ==
    /\ pc = "finally"
    /\ has_repo
    /\ scope_log' = Append(scope_log, "reconcile_exit")
    /\ IF stashed_rev # None /\ error = None
       THEN \E ok \in BOOLEAN :
              /\ git_log' = Append(git_log, GitCommand("checkout", stashed_rev, ok))
              /\ IF ok
                 THEN /\ position' = stashed_rev
                      /\ worktree' = HeadCommit(stashed_rev)
                      /\ UNCHANGED error
                 ELSE /\ error' = "GitError"
                      /\ UNCHANGED <<position, worktree>>
       ELSE UNCHANGED <<position, worktree, error, git_log>>
    /\ pc' = IF error' = None THEN "returned" ELSE "raised"
    /\ UNCHANGED <<findingVars, recordVars, lockVars, has_repo, start_position, base_commit_ref,
                   head_ref, stashed_rev, base_ref, yielded>>

\* Finally with the checkout of line 79 wrapped in a try that logs and goes
\* on: a failing checkout leaves the outcome of the body as it was.
Finally_SwallowsRestoreFailure ==
    /\ pc = "finally"
    /\ has_repo
    /\ scope_log' = Append(scope_log, "reconcile_exit")
    /\ IF stashed_rev # None
       THEN \E ok \in BOOLEAN :
              /\ git_log' = Append(git_log, GitCommand("checkout", stashed_rev, ok))
              /\ IF ok
                 THEN /\ position' = stashed_rev
                      /\ worktree' = HeadCommit(stashed_rev)
                 ELSE UNCHANGED <<position, worktree>>
              /\ UNCHANGED error
       ELSE UNCHANGED <<position, worktree, error, git_log>>
    /\ pc' = IF error' = None THEN "returned" ELSE "raised"
    /\ UNCHANGED <<findingVars, recordVars, lockVars, has_repo, start_position, base_commit_ref,
                   head_ref, stashed_rev, base_ref, yielded>>

\* lines 76-79: the finally clause, on a normal end and on an exception
Finally ==
    /\ pc = "finally"
    /\ has_repo
    /\ scope_log' = Append(scope_log, "reconcile_exit")
    /\ IF stashed_rev # None
       THEN \E ok \in BOOLEAN :
              /\ git_log' = Append(git_log, GitCommand("checkout", stashed_rev, ok))
              /\ IF ok
                 THEN /\ position' = stashed_rev
                      /\ worktree' = HeadCommit(stashed_rev)
                      /\ UNCHANGED error
                 ELSE /\ error' = "GitError"
                      /\ UNCHANGED <<position, worktree>>
       ELSE UNCHANGED <<position, worktree, error, git_log>>
    /\ pc' = IF error' = None THEN "returned" ELSE "raised"
    /\ UNCHANGED <<findingVars, recordVars, lockVars, has_repo, start_position, base_commit_ref,
                   head_ref, stashed_rev, base_ref, yielded>>

\* lines 51-52: without a repository the generator ends after its yield, or
\* the body's exception leaves it at the yield
ReturnNoRepo ==
    /\ pc = "finally"
    /\ ~has_repo
    /\ scope_log' = Append(scope_log, "reconcile_exit")
    /\ pc' = IF error = None THEN "returned" ELSE "raised"
    /\ UNCHANGED <<findingVars, recordVars, lockVars, has_repo, position, start_position,
                   base_commit_ref, head_ref, stashed_rev, base_ref, yielded,
                   error, worktree, git_log>>

\* ---------------------------------------------------- TargetFileManager
\* The two scoped accessors of semgrep_agent.targets.TargetFileManager, after
\* the description of the Dual-Snapshot Target Manager.
\* The tree baseline_paths() puts on disk: the baseline commit's, when there
\* is a repository and a baseline commit.
baseline_tree(tree, commit) ==
    IF has_repo /\ commit \in Commits THEN commit ELSE tree

\* The tree left on disk when the baseline scope exits: the one of the
\* checked-out position.
restored_tree(tree) == IF has_repo THEN HeadCommit(position) ELSE tree

\* The files each tree holds, as [path, text] in listing order: the
\* lockfile yarn.lock unchanged from c1 to c2 and changed in c3, Pipfile.lock
\* new in c2, package-lock.json new in c3; the tree of a directory that is
\* no repository holds one lockfile.
TreeFiles(tree) ==
    IF tree = "c1"
    THEN << [path |-> "README.md", text |-> "r1"],
            [path |-> "yarn.lock", text |-> "y1"] >>
    ELSE IF tree = "c2"
    THEN << [path |-> "README.md", text |-> "r1"],
            [path |-> "yarn.lock", text |-> "y1"],
            [path |-> "Pipfile.lock", text |-> "p1"] >>
    ELSE IF tree = "c3"
    THEN << [path |-> "README.md", text |-> "r2"],
            [path |-> "yarn.lock", text |-> "y2"],
            [path |-> "Pipfile.lock", text |-> "p1"],
            [path |-> "package-lock.json", text |-> "n1"] >>
    ELSE << [path |-> "yarn.lock", text |-> "y1"] >>

\* ----------------------------------------------------------- invoke_semgrep
bodyFrame == <<findingVars, recordVars, has_repo, position, start_position, base_commit_ref,
               head_ref, stashed_rev, base_ref, yielded, git_log>>

\* str.lower() of a file name
Lower(name) == IF name = "Pipfile.lock" THEN "pipfile.lock" ELSE name

\* line 119
TARGET_FILENAMES == <<"pipfile.lock", "yarn.lock", "package-lock.json">>

\* lines 122-128: for every target name in turn, the files with that name
RECURSIVE MatchingFrom(_, _)
MatchingFrom(targets, files) ==
    IF targets = <<>> THEN <<>>
    ELSE SelectSeq(files, LAMBDA f : Lower(f.path) = Lower(Head(targets)))
            \o MatchingFrom(Tail(targets), files)

get_files_matching_name_insensitive_case(files) ==
    MatchingFrom(TARGET_FILENAMES, files)

TextPaths(texts) == {texts[i].path : i \in 1..Len(texts)}

TextOf(texts, path) ==
    texts[CHOOSE i \in 1..Len(texts) : texts[i].path = path].text

\* lines 164-168: the lockfiles of the current tree that the baseline has too
changed_targets(new_texts, old_texts) ==
    LET both == SelectSeq(new_texts, LAMBDA t : t.path \in TextPaths(old_texts))
    IN [i \in 1..Len(both) |->
          [path |-> both[i].path, a_text |-> TextOf(old_texts, both[i].path),
           b_text |-> both[i].text]]

\* lines 169-171: the lockfiles of the current tree that the baseline lacks
introduced_targets(new_texts, old_texts) ==
    LET fresh == SelectSeq(new_texts, LAMBDA t : t.path \notin TextPaths(old_texts))
    IN [i \in 1..Len(fresh) |->
          [path |-> fresh[i].path, a_text |-> None, b_text |-> fresh[i].text]]

\* lines 177-184: the calls of compare_lockfiles, in order
LookupQueue ==
    changed_targets(new_targets_text, old_targets_text)
        \o introduced_targets(new_targets_text, old_targets_text)

\* What the remote service may do with one request.
\* "no_comment" is a status-ok response without a comment, "not_text" one
\* whose comment is no string.
LookupOutcomes ==
    {"raises", "not_json", "not_ok", "no_comment", "not_text", "ok"}

CommentOn(path) == [is_text |-> TRUE, comment_on |-> path]

\* The None compare_lockfiles returns in place of a comment.
NoComment == [is_text |-> FALSE, comment_on |-> None]

\* A comment of the response that is no string.
NonText(path) == [is_text |-> FALSE, comment_on |-> path]

\* compare_lockfiles without its except clauses
compare_lockfiles_NoExcept(path, outcome) ==
    IF outcome = "raises" THEN [raised |-> "RequestException", comment |-> NoComment]
    ELSE IF outcome = "not_json" THEN [raised |-> "JSONDecodeError", comment |-> NoComment]
    ELSE IF outcome = "not_ok" THEN [raised |-> None, comment |-> NoComment]
    ELSE IF outcome = "no_comment" THEN [raised |-> "KeyError", comment |-> NoComment]
    ELSE IF outcome = "not_text" THEN [raised |-> None, comment |-> NonText(path)]
    ELSE [raised |-> None, comment |-> CommentOn(path)]

\* lines 82-116: the comment of the service, or None; every exception of the
\* request, of the JSON decoding and of the lookup of the comment is caught
compare_lockfiles(path, outcome) ==
    IF outcome = "raises" THEN [raised |-> None, comment |-> NoComment]
    ELSE IF outcome = "not_json" THEN [raised |-> None, comment |-> NoComment]
    ELSE IF outcome = "not_ok" THEN [raised |-> None, comment |-> NoComment]
    ELSE IF outcome = "no_comment" THEN [raised |-> None, comment |-> NoComment]
    ELSE IF outcome = "not_text" THEN [raised |-> None, comment |-> NonText(path)]
    ELSE [raised |-> None, comment |-> CommentOn(path)]

\* line 153: with targets.current_paths() as current_paths
EnterCurrentPaths ==
    /\ pc = "with_current"
    /\ scope_log' = Append(scope_log, "current_enter")
    /\ pc' = "in_current"
    /\ UNCHANGED <<bodyFrame, lockVars, error, worktree>>

\* lines 154-156: the lockfiles of the current tree are read
ReadCurrentTargets ==
    /\ pc = "in_current"
    /\ \E ok \in BOOLEAN :
         IF ok
         THEN /\ new_targets_text' =
                    get_files_matching_name_insensitive_case(TreeFiles(worktree))
              /\ error' = None
         ELSE /\ error' = "BodyError"
              /\ UNCHANGED new_targets_text
    /\ pc' = "exit_current"
    /\ UNCHANGED <<bodyFrame, worktree, scope_log, old_targets_text, lookups,
                   res, output, pre_baseline>>

\* ExitCurrentPaths of a current scope entered by hand and kept open for the
\* rest of the block: only an exception closes it.
ExitCurrentPaths_KeptOpen ==
    /\ pc = "exit_current"
    /\ scope_log' = IF error = None THEN scope_log
                    ELSE Append(scope_log, "current_exit")
    /\ pc' = IF error = None THEN "with_baseline" ELSE "finally"
    /\ UNCHANGED <<bodyFrame, lockVars, error, worktree>>

\* the with statement of line 153 ends
ExitCurrentPaths ==
    /\ pc = "exit_current"
    /\ scope_log' = Append(scope_log, "current_exit")
    /\ pc' = IF error = None THEN "with_baseline" ELSE "finally"
    /\ UNCHANGED <<bodyFrame, lockVars, error, worktree>>

\* EnterBaselinePaths with the with statement of line 158 indented under the
\* one of line 153: the baseline scope opens inside the current scope.
EnterBaselinePaths_Nested ==
    /\ pc = "in_current"
    /\ pre_baseline' = [entered |-> TRUE, position |-> position,
                        worktree |-> worktree]
    /\ worktree' = baseline_tree(worktree, yielded)
    /\ scope_log' = Append(scope_log, "baseline_enter")
    /\ pc' = "in_baseline"
    /\ UNCHANGED <<bodyFrame, error, new_targets_text, old_targets_text,
                   lookups, res, output>>

\* EnterBaselinePaths with the with statement of line 158 moved out of the
\* block of line 140: the recorded position is checked out before the
\* baseline scope opens.
EnterBaselinePaths_AfterRestore ==
    /\ pc = "with_baseline"
    /\ pre_baseline' = [entered |-> TRUE, position |-> position,
                        worktree |-> worktree]
    /\ IF stashed_rev # None
       THEN /\ git_log' = Append(git_log, GitCommand("checkout", stashed_rev, TRUE))
            /\ position' = stashed_rev
       ELSE UNCHANGED <<git_log, position>>
    /\ worktree' = baseline_tree(worktree, yielded)
    /\ scope_log' = Append(scope_log, "baseline_enter")
    /\ pc' = "in_baseline"
    /\ UNCHANGED <<findingVars, recordVars, has_repo, start_position,
                   base_commit_ref, head_ref, stashed_rev, base_ref, yielded,
                   error, new_targets_text, old_targets_text, lookups, res,
                   output>>

\* line 158: with targets.baseline_paths() as baseline_paths; materialising
\* the baseline tree may fail, and then the scope is not entered
EnterBaselinePaths ==
    /\ pc = "with_baseline"
    /\ pre_baseline' = [entered |-> TRUE, position |-> position,
                        worktree |-> worktree]
    /\ \E ok \in BOOLEAN :
         IF ok
         THEN /\ worktree' = baseline_tree(worktree, yielded)
              /\ scope_log' = Append(scope_log, "baseline_enter")
              /\ pc' = "in_baseline"
              /\ UNCHANGED error
         ELSE /\ worktree' = restored_tree(worktree)
              /\ error' = "BodyError"
              /\ pc' = "finally"
              /\ UNCHANGED scope_log
    /\ UNCHANGED <<bodyFrame, new_targets_text, old_targets_text, lookups, res,
                   output>>

\* lines 159-161: the lockfiles of the baseline tree are read
ReadBaselineTargets ==
    /\ pc = "in_baseline"
    /\ \E ok \in BOOLEAN :
         IF ok
         THEN /\ old_targets_text' =
                    get_files_matching_name_insensitive_case(TreeFiles(worktree))
              /\ error' = None
         ELSE /\ error' = "BodyError"
              /\ UNCHANGED old_targets_text
    /\ pc' = "exit_baseline"
    /\ UNCHANGED <<bodyFrame, worktree, scope_log, new_targets_text, lookups,
                   res, output, pre_baseline>>

\* ExitBaselinePaths of a scope opened and closed by hand, without with: an
\* exception of the body skips the closing.
ExitBaselinePaths_OnlyOnSuccess ==
    /\ pc = "exit_baseline"
    /\ worktree' = IF error = None THEN restored_tree(worktree) ELSE worktree
    /\ scope_log' = Append(scope_log, "baseline_exit")
    /\ pc' = IF error = None THEN "compare" ELSE "finally"
    /\ UNCHANGED <<bodyFrame, lockVars, error>>

\* the with statement of line 158 ends
ExitBaselinePaths ==
    /\ pc = "exit_baseline"
    /\ worktree' = restored_tree(worktree)
    /\ scope_log' = Append(scope_log, "baseline_exit")
    /\ pc' = IF error = None THEN "compare" ELSE "finally"
    /\ UNCHANGED <<bodyFrame, lockVars, error>>

\* lines 163-176: changed and introduced lockfiles are told apart
CompareTargets ==
    /\ pc = "compare"
    /\ scope_log' = Append(scope_log, "compare")
    /\ res' = <<>>
    /\ pc' = "lookups"
    /\ UNCHANGED <<bodyFrame, error, worktree, new_targets_text,
                   old_targets_text, lookups, output, pre_baseline>>

\* lines 177-184: the next lockfile is submitted; a comment is appended
CompareLockfile ==
    /\ pc = "lookups"
    /\ Len(lookups) < Len(LookupQueue)
    /\ \E outcome \in LookupOutcomes :
         LET item == LookupQueue[Len(lookups) + 1]
             compared == compare_lockfiles(item.path, outcome)
         IN /\ lookups' = Append(lookups, [item |-> item, outcome |-> outcome])
            /\ IF compared.raised # None
               THEN /\ error' = compared.raised
                    /\ pc' = "finally"
                    /\ UNCHANGED res
               ELSE IF compared.comment # NoComment /\ ~compared.comment.is_text
               THEN /\ error' = "TypeError"
                    /\ pc' = "finally"
                    /\ UNCHANGED res
               ELSE /\ res' = IF compared.comment # NoComment
                              THEN Append(res, compared.comment)
                              ELSE res
                    /\ UNCHANGED <<error, pc>>
    /\ UNCHANGED <<bodyFrame, worktree, scope_log, new_targets_text,
                   old_targets_text, output, pre_baseline>>

\* lines 186-194: the comments go to the file GITHUB_ENV names, if any
WriteOutput ==
    /\ pc = "lookups"
    /\ Len(lookups) = Len(LookupQueue)
    /\ IF Len(res) > 0
       THEN \E github_env \in BOOLEAN, ok \in BOOLEAN :
              IF ~github_env THEN UNCHANGED <<output, error>>
              ELSE IF ok THEN output' = res /\ UNCHANGED error
              ELSE error' = "OutputError" /\ UNCHANGED output
       ELSE UNCHANGED <<output, error>>
    /\ pc' = "finally"
    /\ UNCHANGED <<bodyFrame, worktree, scope_log, new_targets_text,
                   old_targets_text, lookups, res, pre_baseline>>

Next ==
    \/ EnterFixHead
    \/ ResolveBase
    \/ StashAndCheckout
    \/ LogRange
    \/ YieldBaseRef
    \/ EnterCurrentPaths
    \/ ReadCurrentTargets
    \/ ExitCurrentPaths
    \/ EnterBaselinePaths
    \/ ReadBaselineTargets
    \/ ExitBaselinePaths
    \/ CompareTargets
    \/ CompareLockfile
    \/ WriteOutput
    \/ Finally
    \/ ReturnNoRepo

Spec == Init /\ [][Next]_vars

\* --------------------------------------------- claims about semgrepdep.py
Exited == pc \in {"returned", "raised"}

Yielded == \E i \in 1..Len(scope_log) : scope_log[i] = "reconcile_enter"

Checkouts == {i \in 1..Len(git_log) : git_log[i].cmd = "checkout"}

\* fix_head_for_github recorded a position and checked out the head ref: the
\* first checkout of the run, which succeeded.
HeadCheckedOut ==
    /\ stashed_rev # None
    /\ \E i \in Checkouts :
          /\ \A j \in Checkouts : i <= j
          /\ git_log[i] = GitCommand("checkout", head_ref, TRUE)

\* C3: when the scope recorded a position and checked out the head ref, every
\* exit from the scope (normal end, body raising, log step failing) checks the
\* recorded position out again as its last git command, the recorded position
\* is the one the call started on, and once that checkout is done the
\* checked-out position is the one before the call.
C3_ScopedRestoration ==
    (Exited /\ HeadCheckedOut) =>
        LET last == git_log[Len(git_log)]
        IN /\ Cardinality(Checkouts) = 2
           /\ last.cmd = "checkout"
           /\ last.arg = start_position
           /\ stashed_rev = start_position
           /\ last.ok => position = start_position

C3_Witness ==
    /\ pc = "raised"
    /\ error = "BodyError"
    /\ HeadCheckedOut
    /\ start_position = "main"
    /\ head_ref = "feature"
    /\ git_log[Len(git_log)] = GitCommand("checkout", "main", TRUE)
    /\ position = "main"

ScopeEvents == SelectSeq(scope_log, LAMBDA e : e # "reconcile_exit")

IsPrefix(p, q) == Len(p) <= Len(q) /\ SubSeq(q, 1, Len(p)) = p

\* C4 as claimed: reconcile entered, then the baseline snapshot entered and
\* exited, then the current snapshot entered and exited, then the comparison;
\* the current scope is never entered before the baseline scope has exited.
C4_BaselineThenCurrent ==
    /\ IsPrefix(ScopeEvents, <<"reconcile_enter", "baseline_enter", "baseline_exit",
                               "current_enter", "current_exit", "compare">>)
    /\ \A i \in 1..Len(scope_log) :
          scope_log[i] = "current_enter"
              => \E j \in 1..(i - 1) : scope_log[j] = "baseline_exit"

\* C4 as amended: reconcile entered, then the current snapshot entered and
\* exited, then the baseline snapshot entered and exited, then the
\* comparison; the baseline scope is never entered before the current scope
\* has exited.
C4_CurrentThenBaseline ==
    /\ IsPrefix(ScopeEvents, <<"reconcile_enter", "current_enter", "current_exit",
                               "baseline_enter", "baseline_exit", "compare">>)
    /\ \A i \in 1..Len(scope_log) :
          scope_log[i] = "baseline_enter"
              => \E j \in 1..(i - 1) : scope_log[j] = "current_exit"

C4_Witness ==
    /\ pc = "returned"
    /\ scope_log = <<"reconcile_enter", "current_enter", "current_exit",
                     "baseline_enter", "baseline_exit", "compare",
                     "reconcile_exit">>

\* C7: without a repository fix_head_for_github yields the baseline ref as
\* given, runs no git command (no ref resolution, no checkout on entry or on
\* exit) and records no position, whatever the two refs are.
C7_NoRepoPassthrough ==
    ~has_repo =>
        /\ git_log = <<>>
        /\ stashed_rev = None
        /\ position = start_position
        /\ Yielded => yielded = base_commit_ref
        /\ Exited => Yielded

C7_Witness ==
    /\ ~has_repo
    /\ pc = "returned"
    /\ base_commit_ref = "HEAD^"
    /\ head_ref = "feature"
    /\ yielded = "HEAD^"
    /\ git_log = <<>>

\* C8: a position is recorded and a checkout run only when a head ref is
\* given and differs from the checked-out position; with the head ref absent
\* or already checked out nothing is recorded and no checkout runs on entry
\* or on exit.
C8_CheckoutOnlyWhenHeadDiffers ==
    (stashed_rev # None \/ Checkouts # {})
        => (Truthy(head_ref) /\ head_ref # start_position)

\* C9: with a repository and a baseline ref given, the ref is resolved before
\* any checkout runs, and the value yielded to the body and used in the
\* commit-range log is the commit the ref denoted when the call started.
C9_BaselineResolvedFirst ==
    (has_repo /\ Truthy(base_commit_ref)) =>
        /\ \A i \in Checkouts :
              \E j \in 1..(i - 1) :
                  git_log[j] = GitCommand("rev-parse", base_commit_ref, TRUE)
        /\ \A i \in 1..Len(git_log) :
              git_log[i].cmd = "log"
                  => git_log[i].arg = rev_parse(base_commit_ref, start_position)
        /\ Yielded => yielded = rev_parse(base_commit_ref, start_position)

C9_Witness ==
    /\ has_repo
    /\ base_commit_ref = "HEAD^"
    /\ start_position = "main"
    /\ position = "feature"
    /\ pc = "in_current"
    /\ yielded = "c1"
    /\ rev_parse(base_commit_ref, position) = "c2"

\* ------------------------------------------------- claims about findings.py
\* Every Finding the run holds: the list members as from_semgrep_result made
\* them and the members of the two expanded sets.
Range(seq) == {seq[i] : i \in 1..Len(seq)}

PairsOf(mapping) ==
    UNION { { <<mapping[i].key, mapping[i].findings[j]>> :
                j \in 1..Len(mapping[i].findings) } : i \in 1..Len(mapping) }

StoredPairs == PairsOf(baseline_map) \cup PairsOf(current_map)

AllFindings ==
    {kf[2] : kf \in StoredPairs}
        \cup Range(Expanded(baseline_map)) \cup Range(Expanded(current_map))

AllKeys == DictKeys(baseline_map) \cup DictKeys(current_map)

SameIdentity(a, b) ==
    /\ a.check_id = b.check_id
    /\ a.path = b.path
    /\ a.index = b.index
    /\ a.syntactic_context = b.syntactic_context

\* The members of the new set that belong to a key: same rule and path, and
\* the key's text as a Finding stores it.
NewForKey(key) ==
    {f \in expensive_new :
        /\ f.check_id = key.check_id
        /\ f.path = key.path
        /\ f.syntactic_context = dedent(key.syntactic_context)}

\* C1: for every FindingKey with n occurrences in the baseline map and m in
\* the current map, expensive_new() holds exactly max(0, m - n) Findings of
\* that key, those at indices n..m-1.
C1_PositionalReconciliation ==
    \A key \in AllKeys :
        LET n == Len(FindingsOf(baseline_map, key))
            m == Len(FindingsOf(current_map, key))
        IN /\ {f.index : f \in NewForKey(key)} = n..(m - 1)
           /\ Cardinality(NewForKey(key)) = IF m > n THEN m - n ELSE 0

\* C2: two Findings are equal iff they agree on rule identifier, file path,
\* occurrence index and dedented matched text, whatever their informational
\* attributes.
C2_EqualIffSameIdentity ==
    \A a, b \in AllFindings : FindingEq(a, b) <=> SameIdentity(a, b)

\* C5: a FindingSets whose baseline map and current map are the same mapping
\* has an empty expensive_new().
C5_SelfDiffEmpty ==
    baseline_map = current_map => expensive_new = {}

C5_Witness ==
    /\ baseline_map = current_map
    /\ \E i \in 1..Len(current_map) : Len(current_map[i].findings) >= 2
    /\ expensive_new = {}

\* C6: equal Findings have equal hashes, and normalising the same raw record
\* twice gives Findings that are equal and hash-equal.
C6_EqualImpliesHashEqual ==
    /\ \A a, b \in AllFindings :
          FindingEq(a, b) => FindingHash(a) = FindingHash(b)
    /\ \A result \in ReportedResults :
          LET a == from_semgrep_result(result, committed_datetime)[2]
              b == from_semgrep_result(result, committed_datetime)[2]
          IN a \in AllFindings => FindingEq(a, b) /\ FindingHash(a) = FindingHash(b)

\* Two texts that differ only by a common leading indentation.
IndentationOnly(t1, t2) ==
    \E prefix \in Prefixes : t2 = indent(t1, prefix) \/ t1 = indent(t2, prefix)

\* C10: two raw records with the same rule id and path whose matched text
\* differs only by a common leading indentation give Findings that are equal,
\* hash-equal and have the same identifier string, and give the same grouping
\* key.
C10_IndentationKeepsIdentity ==
    \A x, y \in StoredPairs :
        ( /\ x[1].check_id = y[1].check_id
          /\ x[1].path = y[1].path
          /\ IndentationOnly(x[1].syntactic_context, y[1].syntactic_context) )
        => /\ FindingEq(x[2], y[2])
           /\ FindingHash(x[2]) = FindingHash(y[2])
           /\ syntactic_identifier_str(x[2]) = syntactic_identifier_str(y[2])
           /\ x[1] = y[1]


\* C19: with the maps built by grouping the output of from_semgrep_result
\* under the key it returns, each expanded set holds one distinct Finding per
\* raw occurrence: its size is the total length of the lists of its map.
C19_ExpansionLosesNoOccurrence ==
    /\ Cardinality(current_set) = Occurrences(current_map)
    /\ Cardinality(baseline_set) = Occurrences(baseline_map)

\* ------------------------------------------- claims about a single record
\* C11: semgrep_severity_to_int gives 2 for exactly "ERROR", 1 for exactly
\* "WARNING" and 0 for every other string (empty, unknown, other case).
C11_SeverityMapping ==
    record_pc \in {"normalized", "reported"} =>
        LET severity == raw_result.extra.severity
        IN /\ severity = "ERROR" <=> normalized.severity = 2
           /\ severity = "WARNING" <=> normalized.severity = 1
           /\ severity \notin {"ERROR", "WARNING"} <=> normalized.severity = 0

C11_Witness ==
    /\ record_pc = "normalized"
    /\ raw_result.extra.severity = "error"
    /\ normalized.severity = 0

\* the metadata lists a disposition other than "block" under the action key
ListsNonBlocking(f) ==
    f.metadata.has_actions /\ \E a \in f.metadata.actions : a # "block"

\* C12 as claimed: is_blocking() is true unless the metadata lists a
\* non-blocking disposition under the action key; true when the key is
\* omitted, and true for a list naming no non-blocking disposition (empty).
C12_BlockingUnlessNonBlockingListed ==
    record_pc \in {"normalized", "reported"} =>
        (is_blocking(normalized) <=> ~ListsNonBlocking(normalized))

\* C12 as amended: is_blocking() is true exactly when the metadata omits the
\* action key or the list under it names "block".
C12_BlockingIffBlockListedOrNoKey ==
    record_pc \in {"normalized", "reported"} =>
        LET metadata == raw_result.extra.metadata
        IN /\ ~metadata.has_actions => is_blocking(normalized)
           /\ metadata.has_actions =>
                (is_blocking(normalized) <=> "block" \in metadata.actions)

C12_Witness ==
    /\ record_pc = "normalized"
    /\ raw_result.extra.metadata = [has_actions |-> TRUE, actions |-> {}]
    /\ ~is_blocking(normalized)

\* C16: for every Finding from_semgrep_result makes, also one with no commit
\* timestamp, to_dict returns without raising a record of every non-null
\* attribute plus the identifier string, the timestamp in ISO-8601 form when
\* there is one, and no null-valued field.
C16_ReportedRecord ==
    record_pc = "reported" =>
        /\ reported.raised = None
        /\ DOMAIN reported.dict =
              (AttributeNames \ NoneAttributes(normalized)) \cup {"syntactic_id"}
        /\ \A k \in DOMAIN reported.dict :
              reported.dict[k] =
                  IF k = "syntactic_id" THEN syntactic_identifier_str(normalized)
                  ELSE IF k = "commit_date" THEN isoformat(normalized.commit_date)
                  ELSE normalized[k]

\* The loops of lines 177-184 and the writing of the output are over.
LookupsDone == "compare" \in Range(scope_log) /\ pc \in {"finally", "returned", "raised"}

\* C18: a lockfile is submitted to compare_lockfiles only if it is new in the
\* current snapshot or its text differs between baseline and current.
C18_OnlyNewOrChangedSubmitted ==
    \A i \in 1..Len(lookups) :
        \/ lookups[i].item.a_text = None
        \/ lookups[i].item.a_text # lookups[i].item.b_text

LookupErrors == {"RequestException", "JSONDecodeError", "KeyError"}

RECURSIVE CommentsOf(_)
CommentsOf(calls) ==
    IF calls = <<>> THEN <<>>
    ELSE (IF Head(calls).outcome = "ok"
          THEN <<CommentOn(Head(calls).item.path)>> ELSE <<>>)
            \o CommentsOf(Tail(calls))

\* C13: a lookup that fails (request raises, response no JSON, status not ok)
\* raises nothing into invoke_semgrep; every changed and introduced lockfile
\* is still submitted, in order; the comments collected, and the output once
\* written, are exactly those of the lookups that succeeded; and the
\* reconcile scope is left without an error of a lookup, through the
\* checkout of the recorded position.
C13_LookupFailuresDegrade ==
    /\ error \notin LookupErrors
    /\ \A i \in 1..Len(lookups) : lookups[i].item = LookupQueue[i]
    /\ (\A i \in 1..Len(lookups) : lookups[i].outcome # "not_text") =>
          /\ pc = "lookups" => error = None /\ res = CommentsOf(lookups)
          /\ LookupsDone =>
                /\ Len(lookups) = Len(LookupQueue)
                /\ res = CommentsOf(lookups)
                /\ error \in {None, "OutputError", "GitError"}
                /\ output # <<>> => output = res
          /\ LookupsDone /\ Exited /\ stashed_rev # None =>
                /\ "reconcile_exit" \in Range(scope_log)
                /\ git_log[Len(git_log)].cmd = "checkout"
                /\ git_log[Len(git_log)].arg = stashed_rev

C13_Witness ==
    /\ pc = "returned"
    /\ Len(lookups) = 3
    /\ lookups[1].outcome = "raises"
    /\ lookups[2].outcome = "ok"
    /\ lookups[3].outcome = "not_json"
    /\ output = <<CommentOn(lookups[2].item.path)>>
    /\ position = start_position

\* The baseline scope was opened and is over, by its normal end, by an error
\* of its body or by a failure to materialise the baseline tree, and nothing
\* has touched the repository since.
BaselineScopeOver ==
    pre_baseline.entered /\ pc \in {"compare", "lookups", "finally"}

Active(scope) ==
    Cardinality({i \in 1..Len(scope_log) : scope_log[i] = scope \o "_enter"})
        - Cardinality({i \in 1..Len(scope_log) : scope_log[i] = scope \o "_exit"})

\* C15: at most one snapshot scope, current or baseline, is open in any
\* state; the two are never open together and none is opened twice over.
C15_SnapshotMutualExclusion ==
    /\ Active("current") \in {0, 1}
    /\ Active("baseline") \in {0, 1}
    /\ Active("current") + Active("baseline") <= 1

C15_Witness ==
    /\ pc = "exit_baseline"
    /\ error = "BodyError"
    /\ Active("baseline") = 1
    /\ Active("current") = 0
    /\ "current_exit" \in Range(scope_log)

\* The finally clause ran its checkout of the recorded position, which failed.
RestoreFailed ==
    /\ "reconcile_exit" \in Range(scope_log)
    /\ stashed_rev # None
    /\ git_log[Len(git_log)] = GitCommand("checkout", stashed_rev, FALSE)

\* C17: a failing checkout of the recorded position on exit of
\* fix_head_for_github reaches the caller as that failure, after a body
\* that ended normally and after a body that raised.
C17_RestoreFailurePropagates ==
    RestoreFailed => pc = "raised" /\ error = "GitError"

C17_Witness ==
    /\ RestoreFailed
    /\ scope_log = <<"reconcile_enter", "current_enter", "current_exit",
                     "reconcile_exit">>
    /\ pc = "raised"
    /\ position # start_position

SnapshotActive == Active("current") + Active("baseline") >= 1

\* C20: in a run whose head ref was checked out, the position is the head
\* ref and no second checkout has run while a snapshot scope is open; the
\* checkout of the recorded position comes once every opened snapshot scope
\* is closed and is the last git command of the run, also after an error
\* in a snapshot scope, and when it succeeds the run ends on the original
\* position.
C20_HeadRestoredAfterSnapshots ==
    HeadCheckedOut =>
        /\ SnapshotActive =>
              /\ position = head_ref
              /\ Cardinality(Checkouts) = 1
        /\ Cardinality(Checkouts) >= 2 =>
              /\ ~SnapshotActive
              /\ Exited
              /\ error = None =>
                    {"current_exit", "baseline_exit"} \subseteq Range(scope_log)
        /\ Exited /\ Yielded =>
              /\ Cardinality(Checkouts) = 2
              /\ git_log[Len(git_log)].arg = stashed_rev
              /\ git_log[Len(git_log)].ok => position = start_position

C20_Witness ==
    /\ HeadCheckedOut
    /\ pc = "raised"
    /\ error = "BodyError"
    /\ "baseline_exit" \in Range(scope_log)
    /\ Cardinality(Checkouts) = 2
    /\ head_ref # start_position
    /\ position = start_position

====
